---- MODULE Spec2Model ----
(***************************************************************************)
(* Host-authoritative game-state machine of ClickbaitRoyale (src/App.tsx). *)
(* The module models the process that called createGame (the host): its    *)
(* replicated gameState, the map of client connections, the pending        *)
(* setTimeout callbacks scheduled by the SUBMIT_FACT completion, and the   *)
(* snapshot fan-out performed after each handled message.                  *)
(***************************************************************************)
EXTENDS Integers, Sequences, FiniteSets, TLC

\* ------------------------------------------------------------------------
\* Bounds of the model
\* ------------------------------------------------------------------------
MaxVotes == 1       \* votes counted in the round list are explored up to this sum
MaxRankVotes == 3   \* votes of one Round in the sessions handed to the results view
MaxHistory == 13    \* sessions the host goes through in the network runs
MaxWire == 2        \* snapshots in flight to one client in the network runs
MaxChurn == 4       \* sessions the host goes through in the channel runs

\* ------------------------------------------------------------------------
\* Value universes
\* ------------------------------------------------------------------------
HostId == "H"                  \* myPeerId of the host process
Clients == {"A", "B"}          \* peer ids of the remote processes (conn.peer)
Facts == {"f1"}                \* msg.payload.fact
Thumbnails == {"t1"}           \* msg.payload.thumbnail (opaque)
NoThumbnail == "none"          \* RoundData.thumbnail left undefined
Undefined == -1                \* GameState.presentationIndex left undefined
NameOf(id) == "n" \o id        \* the display name a peer types in

\* enum GamePhase
LOBBY == "LOBBY"
INPUT == "INPUT"
SWAP == "SWAP"
EDIT == "EDIT"
PRESENTATION == "PRESENTATION"
VOTE == "VOTE"
RESULT == "RESULT"
GamePhase == {LOBBY, INPUT, SWAP, EDIT, PRESENTATION, VOTE, RESULT}

VARIABLES
    isHost,        \* isHost / isHostRef.current of the modelled process
    gameState,     \* the GameState held by useState
    chans,         \* peers whose incoming DataConnection is open (conn.open)
    connections,   \* keys of connectionsRef.current
    timers,        \* pending setTimeout callbacks, in scheduling order
    lastSend,      \* what the event handled last put on the wire
    sortedRounds,  \* the ranking computed by the RESULT screen
    local,         \* the GameState held by useState in each client process
    wire,          \* STATE_UPDATE messages sent to each client, not yet delivered
    history,       \* the sessions the host has held, oldest first
    seen,          \* per client, the position in history of the snapshot applied last
    up,            \* clients whose own end of the channel to the host is open
    stale,         \* peers with an earlier channel whose close the host has yet to see
    elements,      \* the canvas contents held by the editor's useState
    editHistory,   \* the editor's history array (useState 'history')
    historyIndex   \* the editor's position in its history array

hostVars == <<isHost, gameState, chans, connections, timers, lastSend>>

editorVars == <<elements, editHistory, historyIndex>>

vars == <<isHost, gameState, chans, connections, timers, lastSend,
          sortedRounds, local, wire, history, seen, up, stale,
          elements, editHistory, historyIndex>>

\* ------------------------------------------------------------------------
\* Array helpers (0-based results, as in JavaScript)
\* ------------------------------------------------------------------------
\* players.findIndex(p => p.id === id)
FindPlayerIndex(players, id) ==
    IF \E i \in 1..Len(players) : players[i].id = id
    THEN (CHOOSE i \in 1..Len(players) :
              /\ players[i].id = id
              /\ \A j \in 1..(i - 1) : players[j].id # id) - 1
    ELSE -1

\* rounds.findIndex(r => r.ownerId === id)
FindRoundIndexByOwner(rounds, id) ==
    IF \E i \in 1..Len(rounds) : rounds[i].ownerId = id
    THEN (CHOOSE i \in 1..Len(rounds) :
              /\ rounds[i].ownerId = id
              /\ \A j \in 1..(i - 1) : rounds[j].ownerId # id) - 1
    ELSE -1

\* EverySubmitted that never finds the quorum complete
EverySubmittedNever(players) == FALSE

\* EverySubmitted satisfied by a single flag
EverySubmittedSome(players) == \E i \in 1..Len(players) : players[i].hasSubmitted

\* players.every(p => p.hasSubmitted)
EverySubmitted(players) == \A i \in 1..Len(players) : players[i].hasSubmitted

\* ResetPlayers leaving the flags as they are
ResetPlayersKeeps(players) == players

\* players.map(p => ({...p, hasSubmitted: false}))
ResetPlayers(players) ==
    [i \in 1..Len(players) |-> [players[i] EXCEPT !.hasSubmitted = FALSE]]

\* The initial useState value, also installed by the client's close handler
InitialGameState ==
    [phase |-> LOBBY, players |-> <<>>, roundData |-> <<>>,
     presentationIndex |-> Undefined]

\* ------------------------------------------------------------------------
\* handleNetworkMessage: the updater passed to setGameState
\* ------------------------------------------------------------------------
\* Outcome with shouldBroadcast never set
OutcomeNeverSignals(state, shouldBroadcast, timer) ==
    [state |-> state, shouldBroadcast |-> FALSE, timer |-> timer]

Outcome(state, shouldBroadcast, timer) ==
    [state |-> state, shouldBroadcast |-> shouldBroadcast, timer |-> timer]

\* NewPlayer built from a copy of createGame's entry: the flag left true
NewPlayerAsHost(senderId, name) ==
    [id |-> senderId, name |-> name, score |-> 0, isHost |-> TRUE,
     hasSubmitted |-> FALSE]

NewPlayer(senderId, name) ==
    [id |-> senderId, name |-> name, score |-> 0, isHost |-> FALSE,
     hasSubmitted |-> FALSE]

\* HandleJoin without the lookup: every Join appends an entry
HandleJoinAlwaysAdds(cur, msg, senderId) ==
    Outcome([cur EXCEPT !.players = Append(@, NewPlayer(senderId, msg.name))],
            TRUE, <<>>)

\* HandleJoin answering a re-join with a fresh lobby
HandleJoinResetsOnRejoin(cur, msg, senderId) ==
    IF FindPlayerIndex(cur.players, senderId) = -1
    THEN Outcome([cur EXCEPT !.players = Append(@, NewPlayer(senderId, msg.name))],
                 TRUE, <<>>)
    ELSE Outcome([cur EXCEPT !.phase = LOBBY, !.roundData = <<>>], TRUE, <<>>)

HandleJoin(cur, msg, senderId) ==
    IF FindPlayerIndex(cur.players, senderId) = -1
    THEN Outcome([cur EXCEPT !.players = Append(@, NewPlayer(senderId, msg.name))],
                 TRUE, <<>>)
    ELSE Outcome(cur, TRUE, <<>>)

\* HandleStartGame without the test of the phase
HandleStartGameUnguarded(cur, msg, senderId) ==
    Outcome([cur EXCEPT !.phase = INPUT], TRUE, <<>>)

HandleStartGame(cur, msg, senderId) ==
    IF cur.phase = LOBBY
    THEN Outcome([cur EXCEPT !.phase = INPUT], TRUE, <<>>)
    ELSE Outcome(cur, FALSE, <<>>)

\* AssignRounds without the shift by one position
AssignRoundsNoShift(newRounds, resetPlayers) ==
    [k \in 1..Len(newRounds) |->
        LET ownerIdx == FindPlayerIndex(resetPlayers, newRounds[k].ownerId)
            assigneeIdx == ownerIdx % Len(resetPlayers)
        IN [newRounds[k] EXCEPT
                !.assignedToPlayerId = resetPlayers[assigneeIdx + 1].id]]

\* the rotation of the SUBMIT_FACT completion
AssignRounds(newRounds, resetPlayers) ==
    [k \in 1..Len(newRounds) |->
        LET ownerIdx == FindPlayerIndex(resetPlayers, newRounds[k].ownerId)
            assigneeIdx == (ownerIdx + 1) % Len(resetPlayers)
        IN [newRounds[k] EXCEPT
                !.assignedToPlayerId = resetPlayers[assigneeIdx + 1].id]]

RoundEntry(fact, senderId, ownerName) ==
    [originalFact |-> fact, ownerId |-> senderId, ownerName |-> ownerName,
     assignedToPlayerId |-> "", thumbnail |-> NoThumbnail, votes |-> 0]

\* UpsertRound that always pushes
UpsertRoundAlwaysPush(rounds, roundEntry) == Append(rounds, roundEntry)

\* UpsertRound that stores nothing
UpsertRoundDrops(rounds, roundEntry) == rounds

\* newRounds[existingRoundIdx] = roundEntry, or newRounds.push(roundEntry)
UpsertRound(rounds, roundEntry) ==
    LET existingRoundIdx == FindRoundIndexByOwner(rounds, roundEntry.ownerId)
    IN IF existingRoundIdx >= 0
       THEN [rounds EXCEPT ![existingRoundIdx + 1] = roundEntry]
       ELSE Append(rounds, roundEntry)

\* the state the setTimeout callback hands to broadcastState
DelayedState(newState, assignedRounds) ==
    [newState EXCEPT !.phase = EDIT, !.roundData = assignedRounds]

HandleSubmitFact(cur, msg, senderId) ==
    LET playerIndex == FindPlayerIndex(cur.players, senderId) IN
    IF playerIndex = -1
    THEN Outcome(cur, FALSE, <<>>)
    ELSE
      LET updatedPlayers ==
              [cur.players EXCEPT ![playerIndex + 1].hasSubmitted = TRUE]
          roundEntry ==
              RoundEntry(msg.fact, senderId, updatedPlayers[playerIndex + 1].name)
          newRounds == UpsertRound(cur.roundData, roundEntry)
      IN IF EverySubmitted(updatedPlayers)
         THEN LET resetPlayers == ResetPlayers(updatedPlayers)
                  assignedRounds == AssignRounds(newRounds, resetPlayers)
                  newState == [cur EXCEPT !.players = resetPlayers,
                                          !.phase = SWAP,
                                          !.roundData = assignedRounds]
              IN Outcome(newState, TRUE,
                         <<DelayedState(newState, assignedRounds)>>)
         ELSE Outcome([cur EXCEPT !.players = updatedPlayers,
                                  !.roundData = newRounds], TRUE, <<>>)

\* roundData.map(r => r.assignedToPlayerId === senderId ? {...r, thumbnail} : r)
\* AttachThumbnail matching the author of the Round instead of its assignee
AttachThumbnailToOwner(rounds, senderId, thumbnail) ==
    [k \in 1..Len(rounds) |->
        IF rounds[k].ownerId = senderId
        THEN [rounds[k] EXCEPT !.thumbnail = thumbnail]
        ELSE rounds[k]]

AttachThumbnail(rounds, senderId, thumbnail) ==
    [k \in 1..Len(rounds) |->
        IF rounds[k].assignedToPlayerId = senderId
        THEN [rounds[k] EXCEPT !.thumbnail = thumbnail]
        ELSE rounds[k]]

HandleSubmitThumbnail(cur, msg, senderId) ==
    LET pIdx == FindPlayerIndex(cur.players, senderId) IN
    IF pIdx = -1
    THEN Outcome(cur, FALSE, <<>>)
    ELSE
      LET updatedPlayers == [cur.players EXCEPT ![pIdx + 1].hasSubmitted = TRUE]
          updatedRounds == AttachThumbnail(cur.roundData, senderId, msg.thumbnail)
      IN IF EverySubmitted(updatedPlayers)
         THEN Outcome([cur EXCEPT !.players = ResetPlayers(updatedPlayers),
                                  !.roundData = updatedRounds,
                                  !.phase = PRESENTATION,
                                  !.presentationIndex = 0], TRUE, <<>>)
         ELSE Outcome([cur EXCEPT !.players = updatedPlayers,
                                  !.roundData = updatedRounds], TRUE, <<>>)

\* CountVote taking roundIndex as a 1-based position
CountVoteOffByOne(rounds, roundIndex) ==
    IF roundIndex >= 1 /\ roundIndex <= Len(rounds)
    THEN [rounds EXCEPT ![roundIndex].votes = @ + 1]
    ELSE rounds

\* if (votedRounds[roundIndex]) votedRounds[roundIndex] = {..., votes: votes + 1}
CountVote(rounds, roundIndex) ==
    IF roundIndex >= 0 /\ roundIndex < Len(rounds)
    THEN [rounds EXCEPT ![roundIndex + 1].votes = @ + 1]
    ELSE rounds

\* HandleVote that credits the vote to the score of the Round's assignee
HandleVoteScores(cur, msg, senderId) ==
    LET pIdx == FindPlayerIndex(cur.players, senderId) IN
    IF pIdx = -1
    THEN Outcome(cur, FALSE, <<>>)
    ELSE
      LET flagged == [cur.players EXCEPT ![pIdx + 1].hasSubmitted = TRUE]
          updatedPlayers ==
              [i \in 1..Len(flagged) |->
                  IF /\ msg.roundIndex < Len(cur.roundData)
                     /\ cur.roundData[msg.roundIndex + 1].assignedToPlayerId
                            = flagged[i].id
                  THEN [flagged[i] EXCEPT !.score = 1]
                  ELSE flagged[i]]
          votedRounds == CountVote(cur.roundData, msg.roundIndex)
      IN IF EverySubmitted(updatedPlayers)
         THEN Outcome([cur EXCEPT !.players = ResetPlayers(updatedPlayers),
                                  !.roundData = votedRounds,
                                  !.phase = RESULT], TRUE, <<>>)
         ELSE Outcome([cur EXCEPT !.players = updatedPlayers,
                                  !.roundData = votedRounds], TRUE, <<>>)

HandleVote(cur, msg, senderId) ==
    LET pIdx == FindPlayerIndex(cur.players, senderId) IN
    IF pIdx = -1
    THEN Outcome(cur, FALSE, <<>>)
    ELSE
      LET updatedPlayers == [cur.players EXCEPT ![pIdx + 1].hasSubmitted = TRUE]
          votedRounds == CountVote(cur.roundData, msg.roundIndex)
      IN IF EverySubmitted(updatedPlayers)
         THEN Outcome([cur EXCEPT !.players = ResetPlayers(updatedPlayers),
                                  !.roundData = votedRounds,
                                  !.phase = RESULT], TRUE, <<>>)
         ELSE Outcome([cur EXCEPT !.players = updatedPlayers,
                                  !.roundData = votedRounds], TRUE, <<>>)

\* switch (msg.type)
HandleNetworkMessage(cur, msg, senderId) ==
    CASE msg.type = "JOIN" -> HandleJoin(cur, msg, senderId)
      [] msg.type = "START_GAME" -> HandleStartGame(cur, msg, senderId)
      [] msg.type = "SUBMIT_FACT" -> HandleSubmitFact(cur, msg, senderId)
      [] msg.type = "SUBMIT_THUMBNAIL" -> HandleSubmitThumbnail(cur, msg, senderId)
      [] msg.type = "VOTE" -> HandleVote(cur, msg, senderId)
      [] OTHER -> Outcome(cur, FALSE, <<>>)

\* ------------------------------------------------------------------------
\* Messages a peer can put on its channel to the host (NetworkMessage, minus
\* STATE_UPDATE, which only the host emits)
\* ------------------------------------------------------------------------
RoundIndexes == 0..(Cardinality(Clients) + 1)   \* includes one index past the end

Intents(p) ==
    {[type |-> "JOIN", name |-> NameOf(p)], [type |-> "START_GAME"]}
    \cup {[type |-> "SUBMIT_FACT", fact |-> f] : f \in Facts}
    \cup {[type |-> "SUBMIT_THUMBNAIL", thumbnail |-> t] : t \in Thumbnails}
    \cup {[type |-> "VOTE", roundIndex |-> i] : i \in RoundIndexes}

\* connectionsRef.current.forEach(conn => { if (conn.open) conn.send(msg) })
OpenConnections == connections \cap chans

\* SendStateUpdate sending the session as it was before the transition
SendStateUpdateStale(newState) ==
    [to |-> OpenConnections,
     msg |-> <<[type |-> "STATE_UPDATE", payload |-> gameState]>>]

\* { type: 'STATE_UPDATE', payload: newState } sent to every open connection
SendStateUpdate(newState) ==
    [to |-> OpenConnections,
     msg |-> <<[type |-> "STATE_UPDATE", payload |-> newState]>>]

NothingSent == [to |-> {}, msg |-> <<>>]

RECURSIVE SumVotes(_)
SumVotes(rounds) ==
    IF rounds = <<>> THEN 0 ELSE Head(rounds).votes + SumVotes(Tail(rounds))

WithinBounds(state) == SumVotes(state.roundData) <= MaxVotes

\* what one call of handleNetworkMessage on the host does to the state, the
\* timers and the wire
Step(msg, senderId) ==
    LET out == HandleNetworkMessage(gameState, msg, senderId) IN
    [state |-> out.state,
     timers |-> timers \o out.timer,
     send |-> IF out.shouldBroadcast THEN SendStateUpdate(out.state)
              ELSE NothingSent]

ApplyMessage(msg, senderId) ==
    /\ WithinBounds(Step(msg, senderId).state)
    /\ gameState' = Step(msg, senderId).state
    /\ timers' = Step(msg, senderId).timers
    /\ lastSend' = Step(msg, senderId).send
    /\ UNCHANGED <<isHost, chans, connections>>

\* broadcastState(newState)
BroadcastState(newState) ==
    /\ gameState' = newState
    /\ lastSend' = SendStateUpdate(newState)

\* ------------------------------------------------------------------------
\* Initial states
\* ------------------------------------------------------------------------
\* the Player entry createGame builds for the host
Me ==
    [id |-> HostId, name |-> NameOf(HostId), score |-> 0, isHost |-> TRUE,
     hasSubmitted |-> FALSE]

\* no client process has received anything, nothing is in flight and no
\* results screen has been rendered
Idle ==
    /\ sortedRounds = <<>>
    /\ local = [p \in Clients |-> InitialGameState]
    /\ wire = [p \in Clients |-> <<>>]
    /\ history = <<>>
    /\ seen = [p \in Clients |-> 0]
    /\ up = {}
    /\ stale = {}
    /\ elements = 0
    /\ editHistory = <<>>
    /\ historyIndex = -1

\* the component has mounted, nothing was clicked yet
MountInit ==
    /\ isHost = FALSE
    /\ gameState = InitialGameState
    /\ chans = {}
    /\ connections = {}
    /\ timers = <<>>
    /\ lastSend = NothingSent

\* the host has clicked "Create Room" and every client's connection has
\* opened since: the lobby of a fresh room. The engine never reads the
\* connections, so the session is explored with all of them open.
Init ==
    /\ isHost = TRUE
    /\ gameState = [InitialGameState EXCEPT !.players = <<Me>>]
    /\ chans = Clients
    /\ connections = Clients
    /\ timers = <<>>
    /\ lastSend = NothingSent
    /\ Idle

\* ------------------------------------------------------------------------
\* Actions
\* ------------------------------------------------------------------------
\* createGame (the button is rendered only while !isConnected)
CreateGame ==
    /\ ~isHost
    /\ isHost' = TRUE
    /\ gameState' = [gameState EXCEPT !.players = <<Me>>]
    /\ lastSend' = NothingSent
    /\ UNCHANGED <<chans, connections, timers>>

\* peer.on('connection') ... conn.on('open')
ConnOpen(p) ==
    /\ p \notin chans
    /\ chans' = chans \cup {p}
    /\ connections' = IF isHost THEN connections \cup {p} ELSE connections
    /\ lastSend' = NothingSent
    /\ UNCHANGED <<isHost, gameState, timers>>

\* ConnClose taking the peer out of the game as well
ConnCloseDropsPlayer(p) ==
    /\ p \in chans
    /\ chans' = chans \ {p}
    /\ connections' = IF isHost THEN connections \ {p} ELSE connections
    /\ lastSend' = NothingSent
    /\ gameState' = [gameState EXCEPT
                       !.players = SelectSeq(@, LAMBDA q : q.id # p)]
    /\ UNCHANGED <<isHost, timers>>

\* conn.on('close')
ConnClose(p) ==
    /\ p \in chans
    /\ chans' = chans \ {p}
    /\ connections' = IF isHost THEN connections \ {p} ELSE connections
    /\ lastSend' = NothingSent
    /\ UNCHANGED <<isHost, gameState, timers>>

\* conn.on('data', data => handleNetworkMessage(data, conn.peer))
Receive(p, msg) ==
    /\ p \in chans
    /\ IF isHost
       THEN ApplyMessage(msg, p)
       ELSE /\ lastSend' = NothingSent
            /\ UNCHANGED <<isHost, gameState, chans, connections, timers>>

\* gameState.players.find(p => p.id === myPeerId)?.hasSubmitted
IHaveSubmitted(state, me) ==
    \E i \in 1..Len(state.players) :
        /\ state.players[i].id = me
        /\ state.players[i].hasSubmitted

\* startGame, from the lobby button (disabled while players.length < 2)
HostStartGame ==
    /\ isHost
    /\ gameState.phase = LOBBY
    /\ Len(gameState.players) >= 2
    /\ ApplyMessage([type |-> "START_GAME"], HostId)

\* submitMyFact, from the INPUT screen
HostSubmitFact(f) ==
    /\ isHost
    /\ gameState.phase = INPUT
    /\ ~IHaveSubmitted(gameState, HostId)
    /\ ApplyMessage([type |-> "SUBMIT_FACT", fact |-> f], HostId)

\* the effect that derives myAssignedFact while the phase is EDIT: the
\* indexes of the Rounds assigned to me (find takes the first)
MyAssignedFact(state, me) ==
    {k \in 1..Len(state.roundData) : state.roundData[k].assignedToPlayerId = me}

\* submitMyThumbnail, from the CanvasEditor of the EDIT screen
HostSubmitThumbnail(t) ==
    /\ isHost
    /\ gameState.phase = EDIT
    /\ MyAssignedFact(gameState, HostId) # {}
    /\ ~IHaveSubmitted(gameState, HostId)
    /\ ApplyMessage([type |-> "SUBMIT_THUMBNAIL", thumbnail |-> t], HostId)

\* submitVote(idx), from a card of the VOTE screen
HostVote(idx) ==
    /\ isHost
    /\ gameState.phase = VOTE
    /\ idx < Len(gameState.roundData)
    /\ ~IHaveSubmitted(gameState, HostId)
    /\ gameState.roundData[idx + 1].assignedToPlayerId # HostId
    /\ ApplyMessage([type |-> "VOTE", roundIndex |-> idx], HostId)

\* gameState.presentationIndex || 0
CurrentIdx(state) ==
    IF state.presentationIndex = Undefined THEN 0 ELSE state.presentationIndex

\* NextSlideState going on one slide past the last Round
NextSlideStatePastEnd(state) ==
    IF CurrentIdx(state) >= Len(state.roundData)
    THEN [state EXCEPT !.phase = VOTE, !.presentationIndex = 0]
    ELSE [state EXCEPT !.presentationIndex = CurrentIdx(state) + 1]

\* the state nextSlide hands to broadcastState
NextSlideState(state) ==
    IF CurrentIdx(state) >= Len(state.roundData) - 1
    THEN [state EXCEPT !.phase = VOTE, !.presentationIndex = 0]
    ELSE [state EXCEPT !.presentationIndex = CurrentIdx(state) + 1]

\* nextSlide, from the PRESENTATION screen of the host (the button is
\* rendered only when roundData[idx] exists)
NextSlide ==
    /\ isHost
    /\ gameState.phase = PRESENTATION
    /\ CurrentIdx(gameState) < Len(gameState.roundData)
    /\ BroadcastState(NextSlideState(gameState))
    /\ UNCHANGED <<isHost, chans, connections, timers>>

\* LobbyState starting a fresh room: only the first participant is kept
LobbyStateFresh(state) ==
    [phase |-> LOBBY, players |-> <<state.players[1]>>, roundData |-> <<>>,
     presentationIndex |-> Undefined]

\* the state the "Return to Lobby" button hands to broadcastState
LobbyState(state) ==
    [phase |-> LOBBY, players |-> state.players, roundData |-> <<>>,
     presentationIndex |-> Undefined]

\* the "Return to Lobby" button of the RESULT screen of the host (the screen
\* renders only with a winnerRound)
ReturnToLobby ==
    /\ isHost
    /\ gameState.phase = RESULT
    /\ Len(gameState.roundData) > 0
    /\ BroadcastState(LobbyState(gameState))
    /\ UNCHANGED <<isHost, chans, connections, timers>>

\* TimerCallback re-reading the session when the timer fires
TimerCallbackRereads(captured, live) == [live EXCEPT !.phase = EDIT]

\* TimerCallback of a timer that was cancelled: the session stays as it is
TimerCallbackCancelled(captured, live) == live

\* the state the setTimeout callback hands to broadcastState when it runs:
\* built from the variables the closure captured (newState, assignedRounds),
\* never from the gameState of that moment
TimerCallback(captured, live) == captured

\* the setTimeout callback of the SUBMIT_FACT completion; callbacks of equal
\* delay run in scheduling order
TimerFire ==
    /\ timers # <<>>
    /\ BroadcastState(TimerCallback(Head(timers), gameState))
    /\ timers' = Tail(timers)
    /\ UNCHANGED <<isHost, chans, connections>>

\* a step of the host alone: the client processes and the results view are
\* left out of the run
Quiet == UNCHANGED <<sortedRounds, local, wire, history, seen, up, stale, editorVars>>

\* The engine under every intent any connected peer can send, the host's own
\* screens and the timer
Next ==
    \/ \E p \in Clients : \E msg \in Intents(p) : Receive(p, msg) /\ Quiet
    \/ HostStartGame /\ Quiet
    \/ \E f \in Facts : HostSubmitFact(f) /\ Quiet
    \/ \E t \in Thumbnails : HostSubmitThumbnail(t) /\ Quiet
    \/ \E idx \in RoundIndexes : HostVote(idx) /\ Quiet
    \/ NextSlide /\ Quiet
    \/ ReturnToLobby /\ Quiet
    \/ TimerFire /\ Quiet

Spec == Init /\ [][Next]_vars

\* the same with the timer callback always run once it is due
FairSpec == Spec /\ WF_vars(TimerFire /\ Quiet)

\* ------------------------------------------------------------------------
\* The RESULT screen
\* ------------------------------------------------------------------------
\* Compare ranking the Round with fewer votes first
CompareAscending(a, b) == a.votes - b.votes

\* the comparator (a, b) => b.votes - a.votes; positive: a goes after b
Compare(a, b) == b.votes - a.votes

\* Array.prototype.sort is stable: an element goes before the first one the
\* comparator puts after it, and behind every element it compares equal to
RECURSIVE Insert(_, _)
Insert(sorted, r) ==
    IF sorted = <<>> THEN <<r>>
    ELSE IF Compare(Head(sorted), r) > 0
         THEN <<r>> \o sorted
         ELSE <<Head(sorted)>> \o Insert(Tail(sorted), r)

\* [...gameState.roundData].sort((a, b) => b.votes - a.votes)
RECURSIVE SortedRounds(_)
SortedRounds(rounds) ==
    IF rounds = <<>> THEN <<>>
    ELSE Insert(SortedRounds(SubSeq(rounds, 1, Len(rounds) - 1)),
                rounds[Len(rounds)])

JoinOrder == <<HostId, "A", "B">>

\* a session in RESULT after a game of n participants, every Round with its
\* thumbnail, with the given vote counters
ResultSession(n, votes) ==
    [phase |-> RESULT,
     players |-> [i \in 1..n |->
                    [id |-> JoinOrder[i], name |-> NameOf(JoinOrder[i]),
                     score |-> 0, isHost |-> (i = 1), hasSubmitted |-> FALSE]],
     roundData |-> [i \in 1..n |->
                    [ownerId |-> JoinOrder[i],
                     ownerName |-> NameOf(JoinOrder[i]),
                     originalFact |-> "f1",
                     assignedToPlayerId |-> JoinOrder[(i % n) + 1],
                     thumbnail |-> "t1",
                     votes |-> votes[i]]],
     presentationIndex |-> 0]

\* the host shows the RESULT screen of a finished game, not yet rendered
RankInit ==
    /\ isHost = TRUE
    /\ \E n \in 1..Len(JoinOrder) :
           \E votes \in [1..n -> 0..MaxRankVotes] :
               gameState = ResultSession(n, votes)
    /\ chans = Clients
    /\ connections = Clients
    /\ timers = <<>>
    /\ lastSend = NothingSent
    /\ Idle

\* the render of the RESULT phase
RenderResults ==
    /\ gameState.phase = RESULT
    /\ sortedRounds' = SortedRounds(gameState.roundData)
    /\ UNCHANGED <<hostVars, local, wire, history, seen, up, stale, editorVars>>

RankNext == RenderResults

RankSpec == RankInit /\ [][RankNext]_vars

\* ------------------------------------------------------------------------
\* The host together with the client processes
\* ------------------------------------------------------------------------
\* ClientIsHost of a client that took itself for the host
ClientIsHostAssumed(p) == TRUE

\* isHost of a process that joined a room: createGame was never called
ClientIsHost(p) == FALSE

\* ApplySnapshot keeping the participant list the client already showed
ApplySnapshotMerging(cur, payload) ==
    IF cur.players = <<>> THEN payload
    ELSE [payload EXCEPT !.players = cur.players]

\* setGameState(msg.payload)
ApplySnapshot(cur, payload) == payload

\* handleNetworkMessage(data, 'HOST') in a client process
ClientHandle(p, cur, msg) ==
    IF msg.type = "STATE_UPDATE" THEN ApplySnapshot(cur, msg.payload)
    ELSE IF ~ClientIsHost(p) THEN cur
    ELSE HandleNetworkMessage(cur, msg, "HOST").state

\* Dequeue handing over the newest message first
DequeueNewestFirst(q) ==
    [first |-> q[Len(q)], rest |-> SubSeq(q, 1, Len(q) - 1)]

\* a reliable DataConnection hands over its messages in sending order
Dequeue(q) == [first |-> Head(q), rest |-> Tail(q)]

\* what the screens of a joined client let it send: JOIN from the open
\* handler of joinGame; the INPUT, EDIT and VOTE screens as rendered from its
\* local gameState
ClientIntents(p) ==
    {[type |-> "JOIN", name |-> NameOf(p)]}
    \cup {[type |-> "SUBMIT_FACT", fact |-> f] :
            f \in {g \in Facts : /\ local[p].phase = INPUT
                                 /\ ~IHaveSubmitted(local[p], p)}}
    \cup {[type |-> "SUBMIT_THUMBNAIL", thumbnail |-> t] :
            t \in {u \in Thumbnails : /\ local[p].phase = EDIT
                                      /\ MyAssignedFact(local[p], p) # {}
                                      /\ ~IHaveSubmitted(local[p], p)}}
    \cup {[type |-> "VOTE", roundIndex |-> i] :
            i \in {j \in RoundIndexes :
                     /\ local[p].phase = VOTE
                     /\ j < Len(local[p].roundData)
                     /\ ~IHaveSubmitted(local[p], p)
                     /\ local[p].roundData[j + 1].assignedToPlayerId # p}}

\* the host's sends reach the clients whose end of the channel is open, a
\* send towards a closed end is lost; history records the session after every
\* change
Transmit ==
    /\ history' = IF gameState' # gameState THEN Append(history, gameState')
                  ELSE history
    /\ Len(history') <= MaxHistory
    /\ wire' = [p \in Clients |->
                  IF lastSend'.msg # <<>> /\ p \in lastSend'.to /\ p \in up
                  THEN Append(wire[p], [msg |-> lastSend'.msg[1],
                                        stamp |-> Len(history')])
                  ELSE wire[p]]
    /\ \A p \in Clients : Len(wire'[p]) <= MaxWire
    /\ UNCHANGED <<sortedRounds, local, seen, up, stale, editorVars>>

\* SendToHost sending whatever the state of the channel
SendToHostUnchecked(p, msg) == <<msg>>

\* what sendToHost puts on the channel of client p: the message if
\* hostConnectionRef.current is open, nothing (a console warning) otherwise
SendToHost(p, msg) == IF p \in up THEN <<msg>> ELSE <<>>

\* sendToHost(msg) in the process of client p; what was sent is handled by
\* the host if its end of the channel is open
ClientIntent(p, msg) ==
    /\ p \in chans
    /\ IF ClientIsHost(p)
       THEN /\ local' = [local EXCEPT
                           ![p] = HandleNetworkMessage(local[p], msg, p).state]
            /\ UNCHANGED <<hostVars, sortedRounds, wire, history, seen, up,
                           stale, editorVars>>
       ELSE /\ SendToHost(p, msg) # <<>>
            /\ Receive(p, SendToHost(p, msg)[1])
            /\ Transmit

\* conn.on('data') of joinGame: the next snapshot reaches client p
Deliver(p) ==
    /\ p \in up
    /\ wire[p] # <<>>
    /\ local' = [local EXCEPT
                   ![p] = ClientHandle(p, local[p], Dequeue(wire[p]).first.msg)]
    /\ wire' = [wire EXCEPT ![p] = Dequeue(wire[p]).rest]
    /\ seen' = [seen EXCEPT ![p] = Dequeue(wire[p]).first.stamp]
    /\ UNCHANGED <<hostVars, sortedRounds, history, up, stale, editorVars>>

\* CloseReset leaving the screen of the game on show
CloseResetKeeps(cur) == cur

\* setGameState({ phase: GamePhase.LOBBY, players: [], roundData: [] })
CloseReset(cur) == InitialGameState

\* conn.on('close') of joinGame: the client's end of the channel has closed;
\* what was in flight towards it is gone
ClientClose(p) ==
    /\ p \in up
    /\ up' = up \ {p}
    /\ local' = [local EXCEPT ![p] = CloseReset(local[p])]
    /\ wire' = [wire EXCEPT ![p] = <<>>]
    /\ seen' = [seen EXCEPT ![p] = 0]
    /\ UNCHANGED <<hostVars, sortedRounds, history, stale, editorVars>>

\* conn.on('close') of the host for the channel of p it holds
HostClose(p) ==
    /\ ConnClose(p)
    /\ UNCHANGED <<sortedRounds, local, wire, history, seen, up, stale, editorVars>>

\* conn.on('close') of the host for an earlier channel of p, after p's new
\* channel has opened: connectionsRef is keyed by conn.peer
StaleClose(p) ==
    /\ p \in stale
    /\ stale' = stale \ {p}
    /\ connections' = IF isHost THEN connections \ {p} ELSE connections
    /\ lastSend' = NothingSent
    /\ UNCHANGED <<isHost, gameState, chans, timers>>
    /\ UNCHANGED <<sortedRounds, local, wire, history, seen, up, editorVars>>

\* joinGame: a new channel opens at both ends; the host may still hold the
\* previous channel of p, whose close it has not seen
Connect(p) ==
    /\ p \notin up
    /\ up' = up \cup {p}
    /\ IF p \in chans
       THEN /\ p \notin stale
            /\ stale' = stale \cup {p}
            /\ connections' = IF isHost THEN connections \cup {p}
                               ELSE connections
            /\ lastSend' = NothingSent
            /\ UNCHANGED <<isHost, gameState, chans, timers>>
       ELSE ConnOpen(p) /\ UNCHANGED stale
    /\ UNCHANGED <<sortedRounds, local, wire, history, seen, editorVars>>

\* both ends of the channel of p close at once
Disconnect(p) ==
    /\ ConnClose(p)
    /\ p \in up
    /\ up' = up \ {p}
    /\ local' = [local EXCEPT ![p] = CloseReset(local[p])]
    /\ wire' = [wire EXCEPT ![p] = <<>>]
    /\ seen' = [seen EXCEPT ![p] = 0]
    /\ UNCHANGED <<sortedRounds, history, stale, editorVars>>

NetInit == MountInit /\ Idle

NetNext ==
    \/ CreateGame /\ Transmit
    \/ \E p \in Clients : Connect(p)
    \/ \E p \in Clients : Disconnect(p)
    \/ \E p \in Clients : \E msg \in ClientIntents(p) : ClientIntent(p, msg)
    \/ \E p \in Clients : Deliver(p)
    \/ HostStartGame /\ Transmit
    \/ \E f \in Facts : HostSubmitFact(f) /\ Transmit
    \/ \E t \in Thumbnails : HostSubmitThumbnail(t) /\ Transmit
    \/ \E idx \in RoundIndexes : HostVote(idx) /\ Transmit
    \/ NextSlide /\ Transmit
    \/ ReturnToLobby /\ Transmit
    \/ TimerFire /\ Transmit

NetSpec == NetInit /\ [][NetNext]_vars

\* The opening and closing of channels, the two ends apart, around the start
\* of a game
ChurnBound == Len(history') <= MaxChurn

ChurnNext ==
    \/ CreateGame /\ Transmit
    \/ \E p \in Clients : Connect(p)
    \/ \E p \in Clients : ClientClose(p)
    \/ \E p \in Clients : HostClose(p)
    \/ \E p \in Clients : StaleClose(p)
    \/ \E p \in Clients : \E msg \in ClientIntents(p) :
           ClientIntent(p, msg) /\ ChurnBound
    \/ \E p \in Clients : Deliver(p)
    \/ HostStartGame /\ Transmit /\ ChurnBound

ChurnSpec == NetInit /\ [][ChurnNext]_vars

\* ========================================================================
\* Properties
\* ========================================================================
AllPeers == Clients \cup {HostId}

IsParticipant(state, p) == FindPlayerIndex(state.players, p) # -1

\* every Round is assigned to the participant one position after its author
IsRotation(state) ==
    \A k \in 1..Len(state.roundData) :
        /\ IsParticipant(state, state.roundData[k].ownerId)
        /\ \A i \in 0..(Len(state.players) - 1) :
               state.players[i + 1].id = state.roundData[k].ownerId =>
                   state.roundData[k].assignedToPlayerId =
                       state.players[((i + 1) % Len(state.players)) + 1].id

NoSelfAssignment(state) ==
    \A k \in 1..Len(state.roundData) :
        state.roundData[k].assignedToPlayerId # state.roundData[k].ownerId

\* p's SUBMIT_FACT is the one that makes every submitted flag true
CompletesQuorum(state, p) ==
    /\ IsParticipant(state, p)
    /\ \A i \in 1..Len(state.players) :
           state.players[i].id # p => state.players[i].hasSubmitted

\* C1: a SubmitFact that completes the quorum of N >= 2 participants yields a
\* session in which the Round of the author at position i is assigned to the
\* participant at position (i+1) mod N, and no Round is assigned to its author.
C1_RotationAtCompletion ==
    \A p \in AllPeers : \A f \in Facts :
        (CompletesQuorum(gameState, p) /\ Len(gameState.players) >= 2) =>
            LET after == Step([type |-> "SUBMIT_FACT", fact |-> f], p).state
            IN /\ IsRotation(after)
               /\ NoSelfAssignment(after)

\* a completion with three participants and three Rounds has just happened
C1_Witness ==
    /\ gameState.phase = SWAP
    /\ timers # <<>>
    /\ Len(gameState.players) = 3
    /\ Len(gameState.roundData) = 3
    /\ IsRotation(gameState)
    /\ lastSend = SendStateUpdate(gameState)

\* C2: the participant ids of the host's session are pairwise distinct in
\* every reachable state, a Join from a listed sender adding no entry.
C2_DistinctParticipants ==
    /\ \A i, j \in 1..Len(gameState.players) :
           gameState.players[i].id = gameState.players[j].id => i = j
    /\ \A p \in Clients :
           IsParticipant(gameState, p) =>
               Step([type |-> "JOIN", name |-> NameOf(p)], p).state.players
                   = gameState.players

\* the list is full outside the lobby: every further Join is a duplicate
C2_Witness ==
    /\ Len(gameState.players) = Cardinality(AllPeers)
    /\ gameState.phase = VOTE
    /\ lastSend = SendStateUpdate(gameState)

\* C3: a StartGame processed in Lobby with fewer than 2 participants leaves
\* the phase Lobby, whoever sent it.
C3_StartNeedsTwo ==
    \A p \in AllPeers :
        (gameState.phase = LOBBY /\ Len(gameState.players) < 2) =>
            Step([type |-> "START_GAME"], p).state.phase = LOBBY

\* C4: a Vote{roundIndex} received from the peer that is the assignee of that
\* Round leaves the Round's vote counter unchanged.
C4_NoSelfVote ==
    \A p \in Clients : \A idx \in RoundIndexes :
        (/\ gameState.phase = VOTE
         /\ idx < Len(gameState.roundData)
         /\ gameState.roundData[idx + 1].assignedToPlayerId = p) =>
            Step([type |-> "VOTE", roundIndex |-> idx], p)
                    .state.roundData[idx + 1].votes
                = gameState.roundData[idx + 1].votes

\* the phase that accepts each participant intent
AcceptingPhase(type) ==
    CASE type = "SUBMIT_FACT" -> INPUT
      [] type = "SUBMIT_THUMBNAIL" -> EDIT
      [] type = "VOTE" -> VOTE
      [] OTHER -> LOBBY

\* C5: a SubmitFact outside Collecting, a SubmitArtifact outside Remixing or
\* a Vote outside Voting is a no-op: the session is unchanged and no snapshot
\* is sent.
C5_OutOfPhaseIsNoOp ==
    \A p \in Clients : \A msg \in Intents(p) :
        (/\ msg.type \in {"SUBMIT_FACT", "SUBMIT_THUMBNAIL", "VOTE"}
         /\ gameState.phase # AcceptingPhase(msg.type)) =>
            /\ Step(msg, p).state = gameState
            /\ Step(msg, p).send = NothingSent

\* the cycle Lobby, Collecting, Assigning, Remixing, Presenting, Voting,
\* Results, Lobby
Successor(phase) ==
    CASE phase = LOBBY -> INPUT
      [] phase = INPUT -> SWAP
      [] phase = SWAP -> EDIT
      [] phase = EDIT -> PRESENTATION
      [] phase = PRESENTATION -> VOTE
      [] phase = VOTE -> RESULT
      [] phase = RESULT -> LOBBY

\* C6: every change of the phase goes from a phase to its immediate
\* successor in the cycle.
C6_PhaseOrder ==
    [][gameState'.phase # gameState.phase =>
           gameState'.phase = Successor(gameState.phase)]_vars

\* the assignment a pending callback captured is the rotation over the
\* participant list it captured
CapturedRotation ==
    \A t \in 1..Len(timers) : IsRotation(timers[t]) /\ timers[t].phase = EDIT

\* C7: the session installed when the delay timer fires carries the
\* assignment computed at completion time, whatever was processed meanwhile.
C7_TimerInstallsCapturedAssignment ==
    [][/\ CapturedRotation
       /\ (timers # <<>> /\ timers' = Tail(timers)) =>
              /\ gameState'.roundData = Head(timers).roundData
              /\ IsRotation(gameState')
              /\ gameState'.phase = EDIT]_vars

\* the timer has fired for a three-Round game
C7_Witness ==
    /\ gameState.phase = EDIT
    /\ timers = <<>>
    /\ Len(gameState.roundData) = 3
    /\ IsRotation(gameState)
    /\ lastSend = SendStateUpdate(gameState)

\* C8: once the phase is Assigning the delayed transition fires: the phase
\* eventually becomes Remixing.
C8_AssigningLeadsToRemixing ==
    (gameState.phase = SWAP) ~> (gameState.phase = EDIT)

\* the timer is pending and an intent was folded in during the wait
C8_Witness ==
    /\ gameState.phase = SWAP
    /\ timers # <<>>
    /\ \E i \in 1..Len(gameState.players) : gameState.players[i].hasSubmitted

RoundsOf(state, p) ==
    {k \in 1..Len(state.roundData) : state.roundData[k].ownerId = p}

\* C10: no two Rounds have the same author; a SubmitFact from an author who
\* has a Round leaves the number of Rounds unchanged, one from an author
\* without a Round adds exactly one.
C10_OneRoundPerAuthor ==
    /\ \A j, k \in 1..Len(gameState.roundData) :
           gameState.roundData[j].ownerId = gameState.roundData[k].ownerId
               => j = k
    /\ \A p \in AllPeers : \A f \in Facts :
           IsParticipant(gameState, p) =>
               LET after == Step([type |-> "SUBMIT_FACT", fact |-> f], p).state
               IN /\ Cardinality(RoundsOf(after, p)) = 1
                  /\ Len(after.roundData) =
                         IF RoundsOf(gameState, p) # {}
                         THEN Len(gameState.roundData)
                         ELSE Len(gameState.roundData) + 1

\* a Round was replaced after the assignment: it is unassigned again while
\* the other Rounds keep their assignee
C10_Witness ==
    /\ Len(gameState.roundData) = 3
    /\ \E j, k \in 1..Len(gameState.roundData) :
           /\ gameState.roundData[j].assignedToPlayerId = ""
           /\ gameState.roundData[k].assignedToPlayerId # ""

\* the phases after the assignment, up to the return to the lobby
PostAssignment == {EDIT, PRESENTATION, VOTE, RESULT}

RoundIdentity(r) == <<r.ownerId, r.originalFact, r.assignedToPlayerId>>

\* C11: from Remixing until the return to Lobby no event changes a Round's
\* author id, original text or assignee id.
C11_RoundsFixedAfterAssignment ==
    [][(gameState.phase = EDIT /\ gameState'.phase \in PostAssignment) =>
           \A k \in 1..Len(gameState.roundData) :
               /\ k <= Len(gameState'.roundData)
               /\ RoundIdentity(gameState'.roundData[k])
                      = RoundIdentity(gameState.roundData[k])]_vars

\* the complete session, on every open connection of the map
FullSnapshot(state) ==
    [to |-> connections \cap chans,
     msg |-> <<[type |-> "STATE_UPDATE", payload |-> state]>>]

\* C12: every transition that changes the session, and every acknowledged
\* re-join, sends the complete session as it is right after the transition
\* on every open connection; nothing else is ever sent.
C12_FullSnapshotAfterTransition ==
    [][/\ gameState' # gameState => lastSend' = FullSnapshot(gameState')
       /\ lastSend'.msg # <<>> => lastSend' = FullSnapshot(gameState')
       /\ \A p \in Clients :
              IsParticipant(gameState, p) =>
                  Step([type |-> "JOIN", name |-> NameOf(p)], p).send
                      = FullSnapshot(gameState)]_vars

\* a slide advance was broadcast to both clients
C12_Witness ==
    /\ gameState.phase = PRESENTATION
    /\ gameState.presentationIndex = 1
    /\ lastSend = FullSnapshot(gameState)
    /\ lastSend.to = Clients

HostFlagged(state) == {i \in 1..Len(state.players) : state.players[i].isHost}

\* C16: once the game is created exactly one participant has the host flag,
\* the one with the host's own id; a participant added by Join has it false.
C16_OneHostFlag ==
    /\ isHost =>
           /\ Cardinality(HostFlagged(gameState)) = 1
           /\ \A i \in HostFlagged(gameState) : gameState.players[i].id = HostId
    /\ \A p \in Clients :
           ~IsParticipant(gameState, p) =>
               LET after == Step([type |-> "JOIN", name |-> NameOf(p)], p).state
               IN ~after.players[Len(after.players)].isHost

\* both clients have joined and a game has run to its results
C16_Witness ==
    /\ isHost
    /\ Len(gameState.players) = 3
    /\ gameState.phase = RESULT

\* C17: the participant list is append-only: every participant keeps its
\* position in every later state.
C17_ParticipantsAppendOnly ==
    [][\A i \in 1..Len(gameState.players) :
           /\ i <= Len(gameState'.players)
           /\ gameState'.players[i].id = gameState.players[i].id]_vars

HasSubmitted(state, p) == IHaveSubmitted(state, p)

\* C18: in Voting a Vote{roundIndex} from a participant who is not the
\* assignee of that Round adds exactly 1 to its counter, leaves the other
\* counters unchanged and marks the voter submitted; when that completes the
\* quorum the phase becomes Results.
C18_VoteCounts ==
    \A p \in AllPeers : \A idx \in RoundIndexes :
        (/\ gameState.phase = VOTE
         /\ IsParticipant(gameState, p)
         /\ idx < Len(gameState.roundData)
         /\ gameState.roundData[idx + 1].assignedToPlayerId # p) =>
            LET after == Step([type |-> "VOTE", roundIndex |-> idx], p).state
            IN /\ Len(after.roundData) = Len(gameState.roundData)
               /\ \A k \in 1..Len(gameState.roundData) :
                      after.roundData[k].votes =
                          gameState.roundData[k].votes
                              + (IF k = idx + 1 THEN 1 ELSE 0)
               /\ IF CompletesQuorum(gameState, p)
                  THEN after.phase = RESULT
                  ELSE after.phase = VOTE /\ HasSubmitted(after, p)

\* a vote for another participant's Round completed the quorum
C18_Witness ==
    /\ gameState.phase = RESULT
    /\ Len(gameState.players) >= 2
    /\ \E k \in 1..Len(gameState.roundData) :
           /\ gameState.roundData[k].votes = 1
           /\ gameState.roundData[k].assignedToPlayerId # ""
    /\ lastSend = FullSnapshot(gameState)

SameParticipants(a, b) ==
    /\ Len(a) = Len(b)
    /\ \A i \in 1..Len(a) :
           /\ a[i].id = b[i].id
           /\ a[i].name = b[i].name
           /\ a[i].score = b[i].score

\* C20: ReturnToLobby in Results yields phase Lobby, no Rounds and the same
\* participants (ids, order, names, scores), and broadcasts that session.
C20_ReturnToLobby ==
    [][(gameState.phase = RESULT /\ gameState'.phase = LOBBY) =>
           /\ gameState'.roundData = <<>>
           /\ SameParticipants(gameState'.players, gameState.players)
           /\ lastSend' = FullSnapshot(gameState')]_vars

\* back in the lobby with all three participants after a game
C20_Witness ==
    /\ gameState.phase = LOBBY
    /\ gameState.roundData = <<>>
    /\ Len(gameState.players) = 3
    /\ \E i \in 1..3 : gameState.players[i].hasSubmitted
    /\ lastSend = FullSnapshot(gameState)

\* ranked is rounds rearranged by f: a permutation of the positions
Rearranges(f, ranked, rounds) ==
    /\ \A i, j \in DOMAIN f : i # j => f[i] # f[j]
    /\ \A i \in DOMAIN f : ranked[i] = rounds[f[i]]

\* C19: the results ranking is a permutation of the Rounds, ordered by votes
\* descending, Rounds with equal votes in the order of the Round list; the
\* first ranked Round has the maximum vote count.
C19_RankingStableDescending ==
    sortedRounds # <<>> =>
        LET rounds == gameState.roundData
            n == Len(rounds)
        IN /\ Len(sortedRounds) = n
           /\ \E f \in [1..n -> 1..n] :
                  /\ Rearranges(f, sortedRounds, rounds)
                  /\ \A i, j \in 1..n :
                         i < j =>
                             \/ sortedRounds[i].votes > sortedRounds[j].votes
                             \/ /\ sortedRounds[i].votes = sortedRounds[j].votes
                                /\ f[i] < f[j]
           /\ \A k \in 1..n : sortedRounds[1].votes >= rounds[k].votes

\* three Rounds, the last one with the most votes and the first two tied:
\* the ranking moved the last to the front and kept the tie in list order
C19_Witness ==
    /\ Len(sortedRounds) = 3
    /\ gameState.roundData[1].votes = gameState.roundData[2].votes
    /\ gameState.roundData[3].votes > gameState.roundData[1].votes
    /\ sortedRounds[1] = gameState.roundData[3]
    /\ sortedRounds[2] = gameState.roundData[1]

\* C13: a client applies the host's snapshots in the order the host produced
\* them: while its channel stays open the position in the host's history of
\* the session it shows never decreases, and its local session is the initial
\* one or the session the host held at that position.
C13_SnapshotsInOrder ==
    [][\A p \in Clients :
           /\ (p \in chans /\ p \in chans') => seen'[p] >= seen[p]
           /\ \/ local'[p] = InitialGameState
              \/ /\ seen'[p] \in 1..Len(history')
                 /\ local'[p] = history'[seen'[p]]]_vars

\* a client shows a session the host has left behind while two newer
\* snapshots are on their way to it
C13_Witness ==
    \E p \in Clients :
        /\ seen[p] >= 2
        /\ Len(wire[p]) = 2
        /\ local[p] = history[seen[p]]
        /\ local[p] # gameState
        /\ wire[p][1].stamp < wire[p][2].stamp

\* C14: when a snapshot is delivered to a client its local session afterwards
\* is the payload, whatever it was before.
C14_SnapshotReplacesLocal ==
    [][\A p \in Clients :
           (/\ p \in chans /\ p \in chans'
            /\ wire[p] # <<>>
            /\ wire'[p] = Tail(wire[p])) =>
               local'[p] = Head(wire[p]).msg.payload]_vars

\* a client that showed a running game now shows the results the host sent
C14_Witness ==
    \E p \in Clients :
        /\ seen[p] = Len(history)
        /\ local[p] = gameState
        /\ local[p].phase = RESULT
        /\ Len(local[p].players) >= 2
        /\ history[seen[p] - 1].phase = VOTE

\* C15: a client process sends no STATE_UPDATE, its handler ignores every
\* message that is not a snapshot, and its local session changes only by the
\* delivery of a snapshot or by the reset of its close handler.
C15_ClientsOnlyMirror ==
    [][\A p \in Clients :
           /\ \A msg \in ClientIntents(p) : msg.type # "STATE_UPDATE"
           /\ \A msg \in Intents(p) : ClientHandle(p, local[p], msg) = local[p]
           /\ local'[p] # local[p] =>
                  \/ /\ p \in chans
                     /\ wire[p] # <<>>
                     /\ local'[p] = Head(wire[p]).msg.payload
                     /\ wire'[p] = Tail(wire[p])
                  \/ /\ p \in chans
                     /\ p \notin chans'
                     /\ local'[p] = InitialGameState]_vars

\* the host has counted a client's fact while the client still shows itself
\* as not having submitted: the snapshot is on its way
C15_Witness ==
    \E p \in Clients :
        /\ IHaveSubmitted(gameState, p)
        /\ local[p].phase = INPUT
        /\ ~IHaveSubmitted(local[p], p)
        /\ IsParticipant(local[p], p)
        /\ wire[p] # <<>>

NoFlagSet(state) ==
    \A i \in 1..Len(state.players) : ~state.players[i].hasSubmitted

\* C24: in Remixing a SubmitArtifact from participant p attaches the artifact
\* to the Round assigned to p, leaves every Round assigned to somebody else as
\* it is and marks p submitted; when that completes the quorum the phase
\* becomes Presenting with cursor 0.
C24_ArtifactToAssignee ==
    \A p \in AllPeers : \A t \in Thumbnails :
        (gameState.phase = EDIT /\ IsParticipant(gameState, p)) =>
            LET after ==
                  Step([type |-> "SUBMIT_THUMBNAIL", thumbnail |-> t], p).state
                before == gameState.roundData
            IN /\ Len(after.roundData) = Len(before)
               /\ \A k \in 1..Len(before) :
                      IF before[k].assignedToPlayerId = p
                      THEN after.roundData[k] = [before[k] EXCEPT !.thumbnail = t]
                      ELSE after.roundData[k] = before[k]
               /\ IF CompletesQuorum(gameState, p)
                  THEN /\ after.phase = PRESENTATION
                       /\ after.presentationIndex = 0
                  ELSE /\ after.phase = EDIT
                       /\ HasSubmitted(after, p)

\* the last artifact of a game of two or more arrived: every Round carries
\* the artifact of its assignee and the presentation starts
C24_Witness ==
    /\ gameState.phase = PRESENTATION
    /\ gameState.presentationIndex = 0
    /\ Len(gameState.players) >= 2
    /\ Len(gameState.roundData) = Len(gameState.players)
    /\ IsRotation(gameState)
    /\ \A k \in 1..Len(gameState.roundData) :
           gameState.roundData[k].thumbnail \in Thumbnails

\* C25: in Presenting with R >= 1 Rounds and cursor c an advance yields cursor
\* c+1 in Presenting when c < R-1 and Voting with cursor 0 otherwise; the
\* cursor of a Presenting state is within 0..R-1, and Voting is reached from
\* Presenting only by the advance at cursor R-1.
C25_AdvancePresentation ==
    [][/\ (gameState.phase = PRESENTATION /\ Len(gameState.roundData) >= 1) =>
              LET c == gameState.presentationIndex
                  R == Len(gameState.roundData)
                  after == NextSlideState(gameState)
              IN /\ c < R - 1 => /\ after.phase = PRESENTATION
                                 /\ after.presentationIndex = c + 1
                 /\ c >= R - 1 => /\ after.phase = VOTE
                                  /\ after.presentationIndex = 0
                 /\ after.players = gameState.players
                 /\ after.roundData = gameState.roundData
       /\ gameState'.phase = PRESENTATION =>
              /\ gameState'.presentationIndex >= 0
              /\ gameState'.presentationIndex <= Len(gameState'.roundData) - 1
       /\ (gameState.phase = PRESENTATION /\ gameState'.phase = VOTE) =>
              /\ gameState.presentationIndex = Len(gameState.roundData) - 1
              /\ gameState' = NextSlideState(gameState)
       /\ (gameState.phase = PRESENTATION /\ gameState'.phase = PRESENTATION) =>
              gameState'.presentationIndex
                  \in {gameState.presentationIndex,
                       gameState.presentationIndex + 1}]_vars

\* the last slide of three is on show
C25_Witness ==
    /\ gameState.phase = PRESENTATION
    /\ Len(gameState.roundData) = 3
    /\ gameState.presentationIndex = 2
    /\ lastSend = FullSnapshot(gameState)

\* C26: a StartGame processed while the phase is not Lobby leaves the session
\* unchanged and sends no snapshot.
C26_StartOutsideLobby ==
    \A p \in AllPeers :
        gameState.phase # LOBBY =>
            /\ Step([type |-> "START_GAME"], p).state = gameState
            /\ Step([type |-> "START_GAME"], p).send = NothingSent
            /\ Step([type |-> "START_GAME"], p).timers = timers

\* a game is running and the event handled last sent nothing
C26_Witness ==
    /\ gameState.phase = EDIT
    /\ Len(gameState.players) >= 2
    /\ lastSend = NothingSent

SubmitIntents ==
    {[type |-> "SUBMIT_FACT", fact |-> f] : f \in Facts}
    \cup {[type |-> "SUBMIT_THUMBNAIL", thumbnail |-> t] : t \in Thumbnails}
    \cup {[type |-> "VOTE", roundIndex |-> i] : i \in RoundIndexes}

\* C27: the session produced by a submission that completes the quorum, and
\* the session a pending timer will install, have every submitted flag false.
C27_QuorumClearsFlags ==
    /\ \A p \in AllPeers : \A msg \in SubmitIntents :
           CompletesQuorum(gameState, p) =>
               /\ NoFlagSet(Step(msg, p).state)
               /\ \A i \in 1..Len(Step(msg, p).timers) :
                      NoFlagSet(Step(msg, p).timers[i])
    /\ \A i \in 1..Len(timers) : NoFlagSet(TimerCallback(timers[i], gameState))

\* results of a game of three: the votes were counted and the flags cleared
C27_Witness ==
    /\ gameState.phase = RESULT
    /\ Len(gameState.players) = 3
    /\ NoFlagSet(gameState)
    /\ SumVotes(gameState.roundData) > 0

\* C29: a SubmitFact, SubmitArtifact or Vote from a sender that is not in the
\* participant list leaves the session unchanged and sends nothing; whenever
\* an event changes the session the replication signal is true.
C29_UnknownSenderIgnored ==
    \A p \in AllPeers :
        /\ \A msg \in SubmitIntents :
               ~IsParticipant(gameState, p) =>
                   /\ Step(msg, p).state = gameState
                   /\ Step(msg, p).send = NothingSent
                   /\ Step(msg, p).timers = timers
        /\ \A msg \in Intents(p) :
               HandleNetworkMessage(gameState, msg, p).state # gameState =>
                   HandleNetworkMessage(gameState, msg, p).shouldBroadcast

\* a game runs among the host and one client while the other client, who
\* never joined, is connected, and the event handled last sent nothing
C29_Witness ==
    /\ gameState.phase = INPUT
    /\ \E p \in Clients : p \in chans /\ ~IsParticipant(gameState, p)
    /\ \E p \in Clients : IsParticipant(gameState, p)
    /\ \E i \in 1..Len(gameState.players) : gameState.players[i].hasSubmitted
    /\ lastSend = NothingSent

\* C30: a Join from a sender not yet in the list that is processed while the
\* phase is not Lobby does not add a participant.
C30_JoinOnlyInLobby ==
    \A p \in Clients :
        (/\ gameState.phase # LOBBY
         /\ Len(gameState.players) >= 2
         /\ ~IsParticipant(gameState, p)) =>
            Step([type |-> "JOIN", name |-> NameOf(p)], p).state.players
                = gameState.players

\* C21: when the channel of a participant closes the host takes it out of
\* connectionsRef and leaves its session and its timers as they are.
C21_CloseKeepsSession ==
    [][\A p \in Clients :
           (p \in chans /\ p \notin chans') =>
               /\ gameState' = gameState
               /\ timers' = timers
               /\ p \notin connections'
               /\ connections' \cup {p} = connections \cup {p}
               /\ lastSend' = NothingSent]_vars

\* the channel of a client that joined and submitted its fact has closed:
\* the client is still in the list, flagged, with its Round
C21_Witness ==
    \E p \in Clients :
        /\ isHost
        /\ p \notin chans
        /\ p \notin connections
        /\ gameState.phase = INPUT
        /\ IHaveSubmitted(gameState, p)
        /\ FindRoundIndexByOwner(gameState.roundData, p) # -1

\* C22: when the channel of a client closes its local session becomes the
\* initial one and stays so until a snapshot sent over a new channel is
\* delivered.
C22_CloseResetsLocal ==
    [][\A p \in Clients :
           /\ (p \in up /\ p \notin up') => local'[p] = InitialGameState
           /\ p \notin up' => (local'[p] = InitialGameState /\ wire'[p] = <<>>)
           /\ (local[p] = InitialGameState /\ local'[p] # InitialGameState) =>
                  /\ p \in up
                  /\ wire[p] # <<>>
                  /\ local'[p] = Head(wire[p]).msg.payload]_vars

\* a client the host counts among the players of a running game shows the
\* initial session: its end of the channel has closed
C22_Witness ==
    \E p \in Clients :
        /\ p \notin up
        /\ local[p] = InitialGameState
        /\ IsParticipant(gameState, p)
        /\ gameState.phase = INPUT
        /\ p \in connections

\* C23: nothing is sent on a channel that is not open and nothing is kept to
\* be sent later: sendToHost on a closed channel sends nothing, the host sends
\* only on open channels it holds, a snapshot enters a client's channel only
\* while the client's end is open, and a channel that opens is empty.
C23_ClosedChannelDrops ==
    [][\A p \in Clients :
           /\ p \notin up => \A msg \in Intents(p) : SendToHost(p, msg) = <<>>
           /\ lastSend'.to \subseteq (chans' \cap connections')
           /\ p \notin up' => wire'[p] = <<>>
           /\ (p \notin up /\ p \in up') => (wire'[p] = <<>> /\ seen'[p] = 0)
           /\ Len(wire'[p]) > Len(wire[p]) =>
                  /\ p \in up
                  /\ p \in lastSend'.to
                  /\ wire'[p] = Append(wire[p], [msg |-> lastSend'.msg[1],
                                                 stamp |-> Len(history')])]_vars

\* the host has just sent a snapshot towards a client whose end of the channel
\* has closed: it is in no channel
C23_Witness ==
    \E p \in Clients :
        /\ p \notin up
        /\ lastSend.msg # <<>>
        /\ p \in lastSend.to
        /\ wire[p] = <<>>
        /\ local[p] = InitialGameState

\* C28: the host's connectionsRef holds every peer whose channel to the host
\* is open.
C28_OpenChannelsRegistered ==
    isHost => chans \subseteq connections

\* ------------------------------------------------------------------------
\* Quorum, assignment, timer and vote accounting
\* ------------------------------------------------------------------------

SubmissionPhases == {INPUT, EDIT, VOTE}

\* a participant of the list whose flag is false in a submission phase
Missing(state, q) ==
    /\ state.phase \in SubmissionPhases
    /\ IsParticipant(state, q)
    /\ ~HasSubmitted(state, q)

AssignedTo(state, p) ==
    {k \in 1..Len(state.roundData) : state.roundData[k].assignedToPlayerId = p}

\* C32: whenever the host's phase is Remixing there are as many Rounds as
\* participants and every participant is the assignee of exactly one Round.
C32_AssignmentBijection ==
    gameState.phase = EDIT =>
        /\ Len(gameState.roundData) = Len(gameState.players)
        /\ \A i \in 1..Len(gameState.players) :
               Cardinality(AssignedTo(gameState, gameState.players[i].id)) = 1

\* C33: a timer fires only while the host's phase is Assigning and it is the
\* only pending one; the session it installs keeps every participant and
\* every Round, artifact and vote count of the session it replaces.
C33_TimerKeepsProgress ==
    [][(timers # <<>> /\ timers' = Tail(timers)) =>
           /\ gameState.phase = SWAP
           /\ Len(timers) = 1
           /\ \A i \in 1..Len(gameState.players) :
                  IsParticipant(gameState', gameState.players[i].id)
           /\ Len(gameState'.roundData) = Len(gameState.roundData)
           /\ \A k \in 1..Len(gameState.roundData) :
                  /\ gameState'.roundData[k].ownerId =
                         gameState.roundData[k].ownerId
                  /\ gameState'.roundData[k].thumbnail =
                         gameState.roundData[k].thumbnail
                  /\ gameState'.roundData[k].votes =
                         gameState.roundData[k].votes]_vars

VoteCounters(state) ==
    [k \in 1..Len(state.roundData) |-> state.roundData[k].votes]

\* C34: a Vote from a participant whose submitted flag is already true, or a
\* Vote handled in Results, increments no counter, and a session entering
\* Results has at most as many votes as participants.
C34_OneVotePerParticipant ==
    /\ \A p \in AllPeers : \A idx \in RoundIndexes :
           (/\ IsParticipant(gameState, p)
            /\ \/ gameState.phase = VOTE /\ HasSubmitted(gameState, p)
               \/ gameState.phase = RESULT) =>
               VoteCounters(Step([type |-> "VOTE", roundIndex |-> idx], p).state)
                   = VoteCounters(gameState)
    /\ gameState.phase = RESULT =>
           SumVotes(gameState.roundData) <= Len(gameState.players)

\* C35: the host's phase is never Results while the Round list is empty, so
\* the results view has a first-ranked Round.
C35_ResultsHaveARound ==
    gameState.phase = RESULT =>
        /\ gameState.roundData # <<>>
        /\ SortedRounds(gameState.roundData) # <<>>

\* Results reached by a whole game of three participants, one vote counted
C35_Witness ==
    /\ gameState.phase = RESULT
    /\ Len(gameState.players) = 3
    /\ Len(gameState.roundData) = 3
    /\ gameState.presentationIndex = 0
    /\ \A k \in 1..3 : gameState.roundData[k].thumbnail # NoThumbnail
    /\ SumVotes(gameState.roundData) = 1

ScoresZero(state) == \A i \in 1..Len(state.players) : state.players[i].score = 0

\* C38: every participant's score is 0 in every session of the host, in the
\* session a pending timer will install, and in the session any message
\* produces: votes received are never added to a score.
C38_ScoreStaysZero ==
    /\ ScoresZero(gameState)
    /\ \A i \in 1..Len(timers) : ScoresZero(timers[i])
    /\ \A p \in AllPeers : \A msg \in Intents(p) : ScoresZero(Step(msg, p).state)
    /\ gameState.phase = RESULT => ScoresZero(LobbyState(gameState))

\* Results with a vote counted for a Round whose assignee is in the list
C38_Witness ==
    /\ gameState.phase = RESULT
    /\ Len(gameState.players) = 3
    /\ \E k \in 1..Len(gameState.roundData) :
           /\ gameState.roundData[k].votes = 1
           /\ IsParticipant(gameState, gameState.roundData[k].assignedToPlayerId)
           /\ gameState.roundData[k].thumbnail # NoThumbnail

\* ------------------------------------------------------------------------
\* The canvas editor's history (components/CanvasEditor.tsx)
\* ------------------------------------------------------------------------

MaxEdits == 4       \* calls of addToHistory explored in one editor
MaxDrawing == 2     \* distinct canvas contents besides the empty canvas

\* canvas contents; 0 is the empty element list, equal contents have equal
\* JSON.stringify
Drawings == 0..MaxDrawing

\* array[i] of JavaScript: undefined outside the array
At(array, i) == IF i >= 0 /\ i < Len(array) THEN array[i + 1] ELSE Undefined

\* array.slice(0, end)
SliceTo(array, end) ==
    SubSeq(array, 1, IF end > Len(array) THEN Len(array) ELSE end)

\* HistoryAfterAdd that treats every state as new
HistoryAfterAddNoDedup(prevHistory, index, newElements) ==
    Append(SliceTo(prevHistory, index + 1), newElements)

\* the updater addToHistory passes to setHistory
HistoryAfterAdd(prevHistory, index, newElements) ==
    LET currentHistory == SliceTo(prevHistory, index + 1)
        lastState == At(currentHistory, Len(currentHistory) - 1)
    IN IF lastState # Undefined /\ lastState = newElements
       THEN prevHistory
       ELSE Append(currentHistory, newElements)

\* addToHistory(newElements)
AddToHistory(newElements) ==
    /\ historyIndex < MaxEdits
    /\ editHistory' = HistoryAfterAdd(editHistory, historyIndex, newElements)
    /\ historyIndex' = historyIndex + 1

\* the component renders elements.map(...): it lives while elements is a list
Rendered == elements # Undefined

\* the initial-setup effect: addText(fact) when the history is empty
Setup(newElements) ==
    /\ Rendered
    /\ editHistory = <<>>
    /\ newElements # 0
    /\ elements' = newElements
    /\ AddToHistory(newElements)
    /\ UNCHANGED <<hostVars, sortedRounds, local, wire, history, seen, up, stale>>

\* addText, addImage, updateElementAndHistory, deleteSelected and the layer
\* buttons: setElements(newElements); addToHistory(newElements)
Edit(newElements) ==
    /\ Rendered
    /\ editHistory # <<>>
    /\ elements' = newElements
    /\ AddToHistory(newElements)
    /\ UNCHANGED <<hostVars, sortedRounds, local, wire, history, seen, up, stale>>

\* handleMouseMove: updateElementStateOnly changes the canvas, not the history
MouseMove(newElements) ==
    /\ Rendered
    /\ elements # 0
    /\ newElements # 0
    /\ elements' = newElements
    /\ UNCHANGED <<editHistory, historyIndex>>
    /\ UNCHANGED <<hostVars, sortedRounds, local, wire, history, seen, up, stale>>

\* handleMouseUp: addToHistory(elementsRef.current), moved or not
MouseUp ==
    /\ Rendered
    /\ elements # 0
    /\ AddToHistory(elements)
    /\ UNCHANGED elements
    /\ UNCHANGED <<hostVars, sortedRounds, local, wire, history, seen, up, stale>>

\* undo
Undo ==
    /\ Rendered
    /\ historyIndex > 0
    /\ historyIndex' = historyIndex - 1
    /\ elements' = At(editHistory, historyIndex - 1)
    /\ UNCHANGED editHistory
    /\ UNCHANGED <<hostVars, sortedRounds, local, wire, history, seen, up, stale>>

\* redo
Redo ==
    /\ Rendered
    /\ historyIndex < Len(editHistory) - 1
    /\ historyIndex' = historyIndex + 1
    /\ elements' = At(editHistory, historyIndex + 1)
    /\ UNCHANGED editHistory
    /\ UNCHANGED <<hostVars, sortedRounds, local, wire, history, seen, up, stale>>

EditorInit == MountInit /\ Idle

EditorNext ==
    \/ \E newElements \in Drawings : Setup(newElements)
    \/ \E newElements \in Drawings : Edit(newElements)
    \/ \E newElements \in Drawings : MouseMove(newElements)
    \/ MouseUp
    \/ Undo
    \/ Redo

EditorSpec == EditorInit /\ [][EditorNext]_vars

\* C39: once the editor's history is non-empty the history index is within
\* 0 .. history.length-1, and the elements installed by undo and redo are an
\* entry of the history.
C39_IndexWithinHistory ==
    /\ editHistory # <<>> =>
           (historyIndex >= 0 /\ historyIndex <= Len(editHistory) - 1)
    /\ elements # Undefined

\* no snapshot is in flight to any client
NothingInFlight == \A p \in Clients : wire[p] = <<>>

\* the channel of p is open at both ends, the host has handled p's Join and
\* p has applied a snapshot on this channel
Joined(p) ==
    /\ p \in up
    /\ p \in chans
    /\ IsParticipant(gameState, p)
    /\ seen[p] > 0

\* C37: when every snapshot in flight has been delivered, the local session
\* of every client whose channel is open and who has joined equals the host's
\* session.
C37_Convergence ==
    NothingInFlight => \A p \in Clients : Joined(p) => local[p] = gameState

\* ------------------------------------------------------------------------
\* A game played by participants who submit once in each phase
\* ------------------------------------------------------------------------

\* handleNetworkMessage on the host, for a message of the host itself or of a
\* peer with an open channel
Handle(msg, senderId) ==
    /\ isHost
    /\ senderId = HostId \/ senderId \in chans
    /\ gameState' = Step(msg, senderId).state
    /\ timers' = Step(msg, senderId).timers
    /\ lastSend' = Step(msg, senderId).send
    /\ UNCHANGED <<isHost, chans, connections>>

\* the participant has its submission of the current phase still to make
Owes(p, phase) ==
    /\ gameState.phase = phase
    /\ IsParticipant(gameState, p)
    /\ ~IHaveSubmitted(gameState, p)

\* the open handler of a peer that is not in the list sends JOIN
PlayJoin(p) ==
    /\ ~IsParticipant(gameState, p)
    /\ Handle([type |-> "JOIN", name |-> NameOf(p)], p)

\* submitMyFact of a participant on its INPUT screen
PlayFact(p) ==
    /\ Owes(p, INPUT)
    /\ \E f \in Facts : Handle([type |-> "SUBMIT_FACT", fact |-> f], p)

\* submitMyThumbnail of a participant in EDIT
PlayThumbnail(p) ==
    /\ Owes(p, EDIT)
    /\ \E t \in Thumbnails :
           Handle([type |-> "SUBMIT_THUMBNAIL", thumbnail |-> t], p)

\* submitVote of a participant on its VOTE screen: the index of a Round that
\* is not assigned to the voter
PlayVote(p) ==
    /\ Owes(p, VOTE)
    /\ \E idx \in 0..(Len(gameState.roundData) - 1) :
           /\ gameState.roundData[idx + 1].assignedToPlayerId # p
           /\ Handle([type |-> "VOTE", roundIndex |-> idx], p)

PlayNext ==
    \/ \E p \in Clients : PlayJoin(p) /\ Quiet
    \/ HostStartGame /\ Quiet
    \/ \E p \in AllPeers : PlayFact(p) /\ Quiet
    \/ TimerFire /\ Quiet
    \/ \E p \in AllPeers : PlayThumbnail(p) /\ Quiet
    \/ NextSlide /\ Quiet
    \/ \E p \in AllPeers : PlayVote(p) /\ Quiet
    \/ ReturnToLobby /\ Quiet

\* every participant of the list makes its submission of the phase, the timer
\* runs when due and the host keeps clicking through the presentation
PlayFairness ==
    /\ \A p \in AllPeers : WF_vars(PlayFact(p) /\ Quiet)
    /\ \A p \in AllPeers : WF_vars(PlayThumbnail(p) /\ Quiet)
    /\ \A p \in AllPeers : WF_vars(PlayVote(p) /\ Quiet)
    /\ WF_vars(TimerFire /\ Quiet)
    /\ WF_vars(NextSlide /\ Quiet)

PlaySpec == Init /\ [][PlayNext]_vars /\ PlayFairness

\* C36: a game started from the lobby with at least two participants, whose
\* participants all submit in every phase and whose host advances the
\* presentation, reaches Results.
C36_GameReachesResults ==
    (gameState.phase = INPUT /\ Len(gameState.players) >= 2)
        ~> (gameState.phase = RESULT)

\* Results of a game of three participants in which each of them has voted
C36_Witness ==
    /\ gameState.phase = RESULT
    /\ Len(gameState.players) = 3
    /\ Len(gameState.roundData) = 3
    /\ SumVotes(gameState.roundData) = 3

====
